---- MODULE Spec2Model ----
(***************************************************************************)
(* Wyoming-like KittenTTS server and client: the length-prefixed framing    *)
(* codec (server _read_frame/_write_frame, client send_frame/recv_exact/     *)
(* recv_frame) and the per-connection session handle_client, run as tasks   *)
(* of one asyncio event loop started by asyncio.start_server.               *)
(***************************************************************************)
EXTENDS Integers, Sequences, FiniteSets, TLC

\* ------------------------------------------------------------------ bounds
\* Connections the dispatcher accepts in one run.
MaxConns == 2
\* Bytes of the longest payload the codec is run on, and the most bytes the
\* network hands over (or one recv returns) at a time.
MaxPayloadLen == 2
MaxChunk == 2
\* One exchange over bounded buffers: the units each direction of the
\* connection holds, and the payload units of the longest text and audio.
BufCap == 2
MaxUnits == 2

\* ------------------------------------------------------- program constants
\* A byte count n is kept as its 16-bit halves, n = hi * 2^16 + lo with
\* 0 <= lo < 2^16; struct.pack(">I", n) accepts 0 .. 2^32-1, that is
\* hi <= 2^16 - 1.
U16Max == 65535
ByteCount(hi, lo) == [hi |-> hi, lo |-> lo]
FitsU32(n) == n.hi <= U16Max
\* For a small k: n = 0, k <= n, n - k.
IsZero(n) == n.hi = 0 /\ n.lo = 0
AtMost(k, n) == n.hi > 0 \/ k <= n.lo
Minus(n, k) ==
    IF n.lo >= k THEN ByteCount(n.hi, n.lo - k)
    ELSE ByteCount(n.hi - 1, n.lo + (U16Max + 1) - k)
Min(a, b) == IF a <= b THEN a ELSE b
\* DEFAULT_SAMPLE_RATE, DEFAULT_SPEED (numbers are kept in hundredths so that
\* 1.5 and int() truncation are exact).
DEFAULT_SAMPLE_RATE == 2400000
DEFAULT_SPEED == 100
DEFAULT_VOICE == [t |-> "str", s |-> "expr-voice-4-f"]

Conns == 1..MaxConns

\* ------------------------------------------------------------- JSON values
Absent == [t |-> "absent"]
JNull == [t |-> "null"]
JList == [t |-> "list"]
JStr(x) == [t |-> "str", s |-> x]
\* A JSON number, in hundredths.
JNum(h) == [t |-> "num", n |-> h]
JObj(type, what, voice, speed, sample_rate) ==
    [t |-> "obj", type |-> type, what |-> what, voice |-> voice,
     speed |-> speed, sample_rate |-> sample_rate]

\* dict.get(key, default) on a parsed JSON object.
Get(h, key, default) == IF h[key] = Absent THEN default ELSE h[key]

\* ---------------------------------------------------------- frame payloads
\* A payload is the bytes of one frame, kept by what decoding makes of them:
\* no bytes, bytes that are not UTF-8, UTF-8 text that is not JSON, or the
\* UTF-8 text of a JSON value.
PEmpty == [k |-> "empty"]
PNotUtf8 == [k |-> "notutf8"]
PText(x) == [k |-> "text", s |-> x]
PJson(j) == [k |-> "json", j |-> j]

\* bytes.decode("utf-8"): the text, or UnicodeDecodeError.
DecodeUtf8(p) ==
    CASE p.k = "empty" -> [ok |-> TRUE, s |-> ""]
      [] p.k = "notutf8" -> [ok |-> FALSE, s |-> ""]
      [] p.k = "text" -> [ok |-> TRUE, s |-> p.s]
      [] OTHER -> [ok |-> TRUE, s |-> "<json>"]

\* json.loads(header_bytes.decode("utf-8")): the value, or an exception
\* (UnicodeDecodeError, JSONDecodeError: the empty text is not JSON).
JsonLoads(p) ==
    IF p.k = "json" THEN [ok |-> TRUE, j |-> p.j] ELSE [ok |-> FALSE, j |-> JNull]

\* ----------------------------------------------------------- what the peer
\* puts on the wire before a read completes: a whole frame, or an end of
\* stream after n bytes of a frame (n = 0: nothing of it was sent).
WFrame(p) == [w |-> "frame", p |-> p]
WEof(n) == [w |-> "eof", n |-> n]
\* The transport was lost with an error (a reset): reads raise it.
WReset == [w |-> "reset"]

TTSHeaders ==
    { JObj(JStr("TTS"), Absent, Absent, Absent, Absent),
      JObj(JStr("TTS"), Absent, JStr("expr-voice-5-m"), JNum(150), JNum(1600000)),
      JObj(JStr("TTS"), Absent, JStr("expr-voice-2-f"), JStr("abc"), JStr("abc")),
      JObj(JStr("TTS"), Absent, Absent, JNull, JList),
      JObj(JStr("TTS"), Absent, Absent, JStr("1.5"), JStr("1.5")) }

InfoHeaders ==
    { JObj(JStr("INFO"), w, Absent, Absent, Absent) :
        w \in { JStr("voices"), JStr("VOICE"), JStr("List_Voices"), JStr("version"),
                JStr("VER"), JStr("models"), Absent, JNum(500) } }

OtherHeaders ==
    { JObj(Absent, Absent, Absent, Absent, Absent),
      JObj(JStr("PING"), Absent, Absent, Absent, Absent),
      JObj(JStr("tts"), JStr("voices"), Absent, Absent, Absent),
      JList }

HeaderItems ==
    { WEof(0), WEof(2), WFrame(PEmpty), WFrame(PText("hello")) }
    \cup { WFrame(PJson(j)) : j \in TTSHeaders \cup InfoHeaders \cup OtherHeaders }

BodyItems ==
    { WEof(0), WEof(5), WFrame(PEmpty), WFrame(PText("ok")), WFrame(PNotUtf8) }

\* ----------------------------------------------------------- collaborators
\* self.tts.available_voices
VoiceList ==
    << "expr-voice-2-m", "expr-voice-2-f", "expr-voice-3-m", "expr-voice-3-f",
       "expr-voice-4-m", "expr-voice-4-f", "expr-voice-5-m", "expr-voice-5-f" >>
AvailableVoices == { VoiceList[i] : i \in 1..Len(VoiceList) }

\* Concurrent traffic: each connection asks for a voice of its own, or sends
\* a header that is not JSON, or nothing.
TrafficHeaderItems(c) ==
    { WEof(0), WFrame(PText("hello")),
      WFrame(PJson(JObj(JStr("TTS"), Absent,
                        JStr(VoiceList[((c - 1) % Len(VoiceList)) + 1]), Absent, Absent))) }
TrafficBodyItems == { WEof(0), WFrame(PText("ok")) }

\* The peer of connection 1 draws its request from the whole request domain;
\* the peers of the other connections are the concurrent traffic.
HeaderItemsOf(c) == IF c = 1 THEN HeaderItems ELSE TrafficHeaderItems(c)
BodyItemsOf(c) == IF c = 1 THEN BodyItems ELSE TrafficBodyItems

\* importlib.metadata.version("kittentts"), or "unknown".
Versions == { "0.1.0", "unknown" }
\* Byte lengths sf.write may produce: a 44-byte WAV header and some samples,
\* more than the transport buffers before drain() waits (64 KiB), or more
\* than a 4-byte length prefix can declare.
WavLens == { ByteCount(0, 46), ByteCount(1, 0), ByteCount(U16Max + 1, 0) }

\* ------------------------------------------------------------------ frames
\* An ERROR message: a fixed reason, and the detail an f-string appends to it.
Msg(reason) == <<reason, "">>
ErrorFrame(message) == [type |-> "ERROR", message |-> message]
InfoVoicesFrame(vs) == [type |-> "INFO", voices |-> vs]
InfoVersionFrame(v) == [type |-> "INFO", version |-> v]
AudioFrame(sr, voice) ==
    [type |-> "AUDIO", format |-> "wav", sample_rate |-> sr, voice |-> voice, ok |-> TRUE]
WavFrame(n) == [type |-> "WAV", len |-> n]

\* len(data) of the encoded frame: known for the audio bytes, short for JSON.
DataLen(f) == IF f.type = "WAV" THEN f.len ELSE ByteCount(0, 64)

VARIABLES
    net,        \* a byte stream from a writer to a reader (codec runs)
    rd,         \* the reader of that stream: a _read_frame or recv_frame loop
    pc,         \* per connection: where its handle_client task stands
    writable,   \* per connection: the transport still delivers what is written
    sent,       \* per connection: the frames delivered to the peer, in order
    got,        \* per connection: what the task's calls met, in order: the wire
                \* at each _read_frame, the results of generate and sf.write
    header,     \* handle_client's local header
    text,       \* handle_client's local text
    wav,        \* handle_client's local wav_bytes (its length)
    calls,      \* per connection: calls of self.tts.generate so far
    args,       \* handle_client's locals voice, speed, sample_rate, as passed
                \* to self.tts.generate and sf.write
    tried,      \* per connection: the frames passed to _write_frame, in order,
                \* delivered or not
    caught,     \* per connection: the exception that left the try block
    cl,         \* a run of a client program (tts_request, or health_check's
                \* check_server and main) against some peer
    xc,         \* one exchange: the client's tts_request
    xs,         \* one exchange: the server's handle_client
    up,         \* one exchange: the byte stream from client to server
    down        \* one exchange: the byte stream from server to client

sessionVars == <<pc, writable, sent, got, header, text, wav, calls, args, tried, caught>>
codecVars == <<net, rd>>
clientVars == <<cl>>
exchangeVars == <<xc, xs, up, down>>
vars ==
    << net, rd, pc, writable, sent, got, header, text, wav, calls, args, tried,
       caught, cl, xc, xs, up, down >>

NoHeader == [t |-> "none"]
NoArgs == [voice |-> Absent, speed |-> 0, sample_rate |-> 0]

SessionInit ==
    /\ pc = [c \in Conns |-> "Idle"]
    /\ writable = [c \in Conns |-> TRUE]
    /\ sent = [c \in Conns |-> <<>>]
    /\ got = [c \in Conns |-> <<>>]
    /\ header = [c \in Conns |-> NoHeader]
    /\ text = [c \in Conns |-> ""]
    /\ wav = [c \in Conns |-> ByteCount(0, 0)]
    /\ calls = [c \in Conns |-> 0]
    /\ args = [c \in Conns |-> NoArgs]
    /\ tried = [c \in Conns |-> <<>>]
    /\ caught = [c \in Conns |-> "none"]

\* A client program, and an exchange, not started.
IdleClient == [pc |-> "idle"]
IdleStream == [buf |-> <<>>, eof |-> FALSE, lost |-> FALSE]
ExchangeIdle ==
    /\ xc = [pc |-> "idle"]
    /\ xs = [pc |-> "idle"]
    /\ up = IdleStream
    /\ down = IdleStream

\* ------------------------------------------------------------ frame codec,
\* as handle_client meets it: one call and its result.
None == [k |-> "None"]

\* _read_frame: readexactly(4), unpack, b"" for length 0, readexactly(length).
\* readexactly raises IncompleteReadError when the stream ends first.
read_frame(item) ==
    CASE item.w = "frame" -> [exc |-> "none", data |-> item.p]
      [] item.w = "eof" -> [exc |-> "IncompleteReadError", data |-> None]
      [] OTHER -> [exc |-> "ConnectionResetError", data |-> None]

\* _write_frame: struct.pack(">I", len(data)) raises struct.error beyond 32
\* bits, before anything is written; drain raises when the transport is lost.
write_frame(f, isOpen) ==
    IF ~FitsU32(DataLen(f)) THEN [exc |-> "struct.error", out |-> <<>>]
    ELSE IF ~isOpen THEN [exc |-> "ConnectionResetError", out |-> <<>>]
    ELSE [exc |-> "none", out |-> <<f>>]

\* _send_error
send_error(message, isOpen) == write_frame(ErrorFrame(message), isOpen)

\* ------------------------------------------------------------ conversions
IntStrings == { "22050" }
FloatStrings == { "22050", "1.5" }
StrToNum(x) == IF x = "22050" THEN 2205000 ELSE 150

\* int(h/100), truncating toward zero, in hundredths.
Trunc(h) == IF h >= 0 THEN (h \div 100) * 100 ELSE 0 - (((0 - h) \div 100) * 100)

\* Mutant of safe_int: a failed conversion yields 0 instead of the default.
safe_int_ZeroOnFailure(value, default) ==
    CASE value.t = "num" -> Trunc(value.n)
      [] value.t = "str" /\ value.s \in IntStrings -> StrToNum(value.s)
      [] OTHER -> 0

\* _safe_int
safe_int(value, default) ==
    CASE value.t = "num" -> Trunc(value.n)
      [] value.t = "str" /\ value.s \in IntStrings -> StrToNum(value.s)
      [] OTHER -> default

\* _safe_float
safe_float(value, default) ==
    CASE value.t = "num" -> value.n
      [] value.t = "str" /\ value.s \in FloatStrings -> StrToNum(value.s)
      [] OTHER -> default

\* str(x) of a JSON value (the one number a request carries here is 5.0).
Str(v) ==
    CASE v.t = "str" -> v.s
      [] v.t = "num" -> "5.0"
      [] v.t = "null" -> "None"
      [] OTHER -> "[]"

\* str.lower()
Lower(x) ==
    CASE x = "VOICE" -> "voice"
      [] x = "List_Voices" -> "list_voices"
      [] x = "VER" -> "ver"
      [] x = "PING" -> "ping"
      [] x = "TTS" -> "tts"
      [] x = "INFO" -> "info"
      [] OTHER -> x

\* ------------------------------------------------- handle_client, by parts
\* Lines 76-117: what the task does with the result r of the header read.
\* write: the frame it passes to _write_frame; exc: an exception raised
\* before any write; body: it goes on to read the text frame.
Reply(f) == [write |-> <<f>>, exc |-> "none", body |-> FALSE, hdr |-> NoHeader]
Raise(e) == [write |-> <<>>, exc |-> e, body |-> FALSE, hdr |-> NoHeader]

\* Mutant of OnInfo: the query compared without .lower().
OnInfo_CaseSensitive(h, ver) ==
    LET what == Str(Get(h, "what", JStr(""))) IN
    IF what \in {"voices", "voice", "list_voices"}
    THEN Reply(InfoVoicesFrame(AvailableVoices))
    ELSE IF what \in {"version", "ver"}
    THEN Reply(InfoVersionFrame(ver))
    ELSE Reply(ErrorFrame(Msg("unsupported_info_query")))

OnInfo(h, ver) ==
    LET what == Lower(Str(Get(h, "what", JStr("")))) IN
    IF what \in {"voices", "voice", "list_voices"}
    THEN Reply(InfoVoicesFrame(AvailableVoices))
    ELSE IF what \in {"version", "ver"}
    THEN Reply(InfoVersionFrame(ver))
    ELSE Reply(ErrorFrame(Msg("unsupported_info_query")))

Dispatch(h, ver) ==
    LET msg_type == Get(h, "type", JNull) IN
    IF msg_type = JStr("INFO") THEN OnInfo(h, ver)
    ELSE IF msg_type # JStr("TTS") THEN Reply(ErrorFrame(Msg("unsupported_type")))
    ELSE [write |-> <<>>, exc |-> "none", body |-> TRUE, hdr |-> h]

OnHeader(r, ver) ==
    IF r.exc # "none" THEN Raise(r.exc)
    ELSE IF r.data = None THEN Reply(ErrorFrame(Msg("missing_header")))
    ELSE LET j == JsonLoads(r.data) IN
         IF ~j.ok THEN Reply(ErrorFrame(Msg("invalid_header_json")))
         ELSE IF j.j.t # "obj" THEN Raise("AttributeError")
         ELSE Dispatch(j.j, ver)

\* Mutant of OnBody: the test is `if not text_bytes`, which takes a
\* zero-length text frame for a missing one.
OnBody_EmptyIsMissing(r) ==
    IF r.exc # "none" THEN Raise(r.exc)
    ELSE IF r.data = None \/ r.data = PEmpty THEN Reply(ErrorFrame(Msg("missing_text_body")))
    ELSE IF ~DecodeUtf8(r.data).ok THEN Reply(ErrorFrame(Msg("text_not_utf8")))
    ELSE [write |-> <<>>, exc |-> "none", body |-> TRUE, hdr |-> NoHeader]

\* Lines 119-128: what the task does with the result r of the text read.
OnBody(r) ==
    IF r.exc # "none" THEN Raise(r.exc)
    ELSE IF r.data = None THEN Reply(ErrorFrame(Msg("missing_text_body")))
    ELSE IF ~DecodeUtf8(r.data).ok THEN Reply(ErrorFrame(Msg("text_not_utf8")))
    ELSE [write |-> <<>>, exc |-> "none", body |-> TRUE, hdr |-> NoHeader]

\* Lines 130-135
Voice(h) == Get(h, "voice", DEFAULT_VOICE)
Speed(h) == safe_float(Get(h, "speed", JNum(DEFAULT_SPEED)), DEFAULT_SPEED)
SampleRate(h) ==
    safe_int(Get(h, "sample_rate", JNum(DEFAULT_SAMPLE_RATE)), DEFAULT_SAMPLE_RATE)

\* Mutant of Except: only IncompleteReadError has a handler, nothing is sent
\* for any other exception.
Except_NoCatchAll(delivered, exc, isOpen) == delivered

\* Lines 163-171: the except clauses, given the frames delivered so far and the
\* exception exc that left the try block ("none": none did). An
\* IncompleteReadError is logged; any other exception gets one attempt to send
\* "server_exception", whose own failure is swallowed.
Except(delivered, exc, isOpen) ==
    IF exc \in {"none", "IncompleteReadError"} THEN delivered
    ELSE delivered \o send_error(Msg("server_exception"), isOpen).out

\* A part of the try block that passes at most one frame to _write_frame and
\* may raise: the frames delivered once the except clauses have run.
Deliver(delivered, d, isOpen) ==
    IF d.exc # "none" THEN Except(delivered, d.exc, isOpen)
    ELSE IF d.write = <<>> THEN delivered
    ELSE LET w == write_frame(d.write[1], isOpen) IN
         Except(delivered \o w.out, w.exc, isOpen)

\* Whether that part leaves the try block (a return or an exception).
Leaves(d, isOpen) ==
    \/ d.exc # "none"
    \/ ~d.body
    \/ d.write # <<>> /\ write_frame(d.write[1], isOpen).exc # "none"

\* The exception that leaves that part ("none": none does): the one it raises
\* itself, or the one its _write_frame raises.
Raised(d, isOpen) ==
    IF d.exc # "none" THEN d.exc
    ELSE IF d.write = <<>> THEN "none"
    ELSE write_frame(d.write[1], isOpen).exc

\* The frames passed to _write_frame by that part and by the except clauses,
\* whether or not they are delivered.
Attempt(attempted, d, isOpen) ==
    LET t == IF d.exc # "none" THEN attempted ELSE attempted \o d.write IN
    IF Raised(d, isOpen) \in {"none", "IncompleteReadError"} THEN t
    ELSE Append(t, ErrorFrame(Msg("server_exception")))

\* ------------------------------------------------------------ the actions
\* Mutant of LoopBusy: generate is handed to a thread pool and awaited
\* (run_in_executor), so the loop goes on running the other tasks.
LoopBusy_Executor == FALSE

\* self.tts.generate is a plain call inside a coroutine: while it runs, the
\* event loop runs nothing else.
LoopBusy == \E c \in Conns : pc[c] = "Synthesizing"

\* What a read may meet: the peer's frames and ends of stream and, once the
\* transport is lost, the error it was lost with.
Wire(items, c) == IF writable[c] THEN items ELSE items \cup {WReset}

\* Mutant of AfterTry: the task goes back to reading a header (a keep-alive
\* loop) instead of closing.
AfterTry_KeepAlive == "AwaitHeader"

\* Where the task stands once it has left the try block.
AfterTry == "Finally"

\* asyncio.start_server's accept callback starts handle_client as a task.
Accept(c) ==
    /\ ~LoopBusy
    /\ pc[c] = "Idle"
    /\ pc' = [pc EXCEPT ![c] = "AwaitHeader"]
    /\ UNCHANGED <<codecVars, clientVars, exchangeVars, writable, sent, got, header, text, wav, calls, args, tried, caught>>

\* Lines 76-117, from the completion of the header read.
ReadHeader(c) ==
    /\ ~LoopBusy
    /\ pc[c] = "AwaitHeader"
    /\ \E item \in Wire(HeaderItemsOf(c), c), ver \in Versions :
        LET d == OnHeader(read_frame(item), ver) IN
        /\ got' = [got EXCEPT ![c] = Append(@, item)]
        /\ sent' = [sent EXCEPT ![c] = Deliver(@, d, writable[c])]
        /\ tried' = [tried EXCEPT ![c] = Attempt(@, d, writable[c])]
        /\ caught' = [caught EXCEPT ![c] = Raised(d, writable[c])]
        /\ header' = [header EXCEPT ![c] = d.hdr]
        /\ pc' = [pc EXCEPT ![c] = IF Leaves(d, writable[c]) THEN AfterTry ELSE "AwaitBody"]
    /\ UNCHANGED <<codecVars, clientVars, exchangeVars, writable, text, wav, calls, args>>

\* Lines 119-141, from the completion of the text read to the call of
\* self.tts.generate.
ReadBody(c) ==
    /\ ~LoopBusy
    /\ pc[c] = "AwaitBody"
    /\ \E item \in Wire(BodyItemsOf(c), c) :
        LET r == read_frame(item)
            d == OnBody(r)
            leaves == Leaves(d, writable[c])
        IN
        /\ got' = [got EXCEPT ![c] = Append(@, item)]
        /\ sent' = [sent EXCEPT ![c] = Deliver(@, d, writable[c])]
        /\ tried' = [tried EXCEPT ![c] = Attempt(@, d, writable[c])]
        /\ caught' = [caught EXCEPT ![c] = Raised(d, writable[c])]
        /\ text' = [text EXCEPT ![c] = IF leaves THEN @ ELSE DecodeUtf8(r.data).s]
        /\ args' = [args EXCEPT ![c] =
                        IF leaves THEN @
                        ELSE [voice |-> Voice(header[c]), speed |-> Speed(header[c]),
                              sample_rate |-> SampleRate(header[c])]]
        /\ calls' = [calls EXCEPT ![c] = IF leaves THEN @ ELSE @ + 1]
        /\ pc' = [pc EXCEPT ![c] = IF leaves THEN AfterTry ELSE "Synthesizing"]
    /\ UNCHANGED <<codecVars, clientVars, exchangeVars, writable, header, wav>>

\* Mutant of Generated: the AUDIO header names the default voice, not the
\* request's.
Generated_DefaultVoice(c, g) ==
    IF g.ok
    THEN IF g.enc
         THEN [write |-> <<AudioFrame(SampleRate(header[c]), DEFAULT_VOICE)>>,
               exc |-> "none", body |-> TRUE, hdr |-> NoHeader]
         ELSE Raise("LibsndfileError")
    ELSE Reply(ErrorFrame(<<"tts_failed: ", "boom">>))

\* Mutant of Generated: no try/except around generate, whose exception goes
\* to the catch-all handler.
Generated_Uncaught(c, g) ==
    IF g.ok
    THEN IF g.enc
         THEN [write |-> <<AudioFrame(SampleRate(header[c]), Voice(header[c]))>>,
               exc |-> "none", body |-> TRUE, hdr |-> NoHeader]
         ELSE Raise("LibsndfileError")
    ELSE Raise("RuntimeError")

\* Mutant of Generated: the parsed header is kept on the server object, which
\* the sessions share, so a session answers from the header parsed last.
Generated_SharedHeader(c, g) ==
    LET parsed == { d \in Conns : header[d] # NoHeader }
        last == CHOOSE d \in parsed : \A e \in parsed : d >= e
    IN
    IF g.ok
    THEN IF g.enc
         THEN [write |-> <<AudioFrame(SampleRate(header[last]), Voice(header[last]))>>,
               exc |-> "none", body |-> TRUE, hdr |-> NoHeader]
         ELSE Raise("LibsndfileError")
    ELSE Reply(ErrorFrame(<<"tts_failed: ", "boom">>))

\* Lines 141-159: generate returns or raises, sf.write encodes or raises, the
\* AUDIO header is written.
Generated(c, g) ==
    IF g.ok
    THEN IF g.enc
         THEN [write |-> <<AudioFrame(SampleRate(header[c]), Voice(header[c]))>>,
               exc |-> "none", body |-> TRUE, hdr |-> NoHeader]
         ELSE Raise("LibsndfileError")
    ELSE Reply(ErrorFrame(<<"tts_failed: ", "boom">>))

GenerateResults ==
    { [w |-> "generate", ok |-> FALSE, enc |-> FALSE, len |-> ByteCount(0, 0)] }
    \cup { [w |-> "generate", ok |-> TRUE, enc |-> FALSE, len |-> ByteCount(0, 0)] }
    \cup { [w |-> "generate", ok |-> TRUE, enc |-> TRUE, len |-> n] : n \in WavLens }

SynthesisReturns(c) ==
    /\ pc[c] = "Synthesizing"
    /\ \E g \in GenerateResults :
        LET d == Generated(c, g)
            leaves == Leaves(d, writable[c])
        IN
        /\ got' = [got EXCEPT ![c] = Append(@, g)]
        /\ sent' = [sent EXCEPT ![c] = Deliver(@, d, writable[c])]
        /\ tried' = [tried EXCEPT ![c] = Attempt(@, d, writable[c])]
        /\ caught' = [caught EXCEPT ![c] = Raised(d, writable[c])]
        /\ wav' = [wav EXCEPT ![c] = IF leaves THEN @ ELSE g.len]
        /\ pc' = [pc EXCEPT ![c] = IF leaves THEN AfterTry ELSE "WriteBody"]
    /\ UNCHANGED <<codecVars, clientVars, exchangeVars, writable, header, text, calls, args>>

\* drain() returns at once while the transport's write buffer is within its
\* high-water mark (64 KiB); beyond it, it waits until the peer has taken
\* the data or the connection is lost.
DrainWaits(f, isOpen) ==
    /\ write_frame(f, isOpen).exc = "none"
    /\ DataLen(f).hi > 0

\* Lines 160-161: _write_frame(writer, wav_bytes), up to its drain().
WriteBody(c) ==
    /\ ~LoopBusy
    /\ pc[c] = "WriteBody"
    /\ LET d == Reply(WavFrame(wav[c])) IN
        IF DrainWaits(WavFrame(wav[c]), writable[c])
        THEN /\ tried' = [tried EXCEPT ![c] = Append(@, WavFrame(wav[c]))]
             /\ pc' = [pc EXCEPT ![c] = "Draining"]
             /\ UNCHANGED <<sent, caught>>
        ELSE /\ sent' = [sent EXCEPT ![c] = Deliver(@, d, writable[c])]
             /\ tried' = [tried EXCEPT ![c] = Attempt(@, d, writable[c])]
             /\ caught' = [caught EXCEPT ![c] = Raised(d, writable[c])]
             /\ pc' = [pc EXCEPT ![c] = AfterTry]
    /\ UNCHANGED <<codecVars, clientVars, exchangeVars, writable, got, header, text, wav, calls, args>>

\* Line 192, for a body the buffers do not hold: drain() returns once the peer
\* has taken the body (writer.close() then finds nothing left to flush).
PeerTakes(c) ==
    /\ ~LoopBusy
    /\ pc[c] = "Draining"
    /\ writable[c]
    /\ sent' = [sent EXCEPT ![c] = Append(@, WavFrame(wav[c]))]
    /\ pc' = [pc EXCEPT ![c] = AfterTry]
    /\ UNCHANGED <<codecVars, clientVars, exchangeVars, writable, got, header, text, wav, calls, args, tried, caught>>

\* Line 192, the connection is lost while drain() waits: it raises, and the
\* catch-all handler runs.
DrainFails(c) ==
    /\ ~LoopBusy
    /\ pc[c] = "Draining"
    /\ ~writable[c]
    /\ sent' = [sent EXCEPT ![c] = Except(@, "ConnectionResetError", FALSE)]
    /\ tried' = [tried EXCEPT ![c] = Append(@, ErrorFrame(Msg("server_exception")))]
    /\ caught' = [caught EXCEPT ![c] = "ConnectionResetError"]
    /\ pc' = [pc EXCEPT ![c] = AfterTry]
    /\ UNCHANGED <<codecVars, clientVars, exchangeVars, writable, got, header, text, wav, calls, args>>

\* Mutant of Close: no try/except around writer.close() and wait_closed(), so
\* on a lost connection the error leaves the task.
Close_Unsuppressed(c) ==
    /\ ~LoopBusy
    /\ pc[c] = "Finally"
    /\ pc' = [pc EXCEPT ![c] = IF writable[c] THEN "Closed" ELSE "Crashed"]
    /\ UNCHANGED <<codecVars, clientVars, exchangeVars, writable, sent, got, header, text, wav, calls, args, tried, caught>>

\* Lines 172-178: writer.close(), wait_closed(), failures swallowed.
Close(c) ==
    /\ ~LoopBusy
    /\ pc[c] = "Finally"
    /\ pc' = [pc EXCEPT ![c] = "Closed"]
    /\ UNCHANGED <<codecVars, clientVars, exchangeVars, writable, sent, got, header, text, wav, calls, args, tried, caught>>

\* The peer (or the network) drops the connection while the task is inside
\* the try block: writes fail from now on. (A drop after the try block meets
\* only writer.close(), whose failure is swallowed.)
PeerReset(c) ==
    /\ pc[c] \notin {"Idle", "Finally", "Closed"}
    /\ writable[c]
    /\ writable' = [writable EXCEPT ![c] = FALSE]
    /\ UNCHANGED <<codecVars, clientVars, exchangeVars, pc, sent, got, header, text, wav, calls, args, tried, caught>>

Next ==
    \E c \in Conns :
        \/ Accept(c)
        \/ ReadHeader(c)
        \/ ReadBody(c)
        \/ SynthesisReturns(c)
        \/ WriteBody(c)
        \/ PeerTakes(c)
        \/ DrainFails(c)
        \/ Close(c)
        \/ PeerReset(c)

\* ============================================================ frame codec,
\* byte by byte: a writer's frames cross the network in pieces and a reader
\* takes them apart again.
Bytes == {0, 1}
Payloads == UNION { [1..n -> Bytes] : n \in 0..MaxPayloadLen }

\* struct.pack(">I", n)
Pack(n) == << n.hi \div 256, n.hi % 256, n.lo \div 256, n.lo % 256 >>

\* Mutant of Unpack: the prefix read as little-endian ("<I").
Unpack_LittleEndian(b) == ByteCount(b[4] * 256 + b[3], b[2] * 256 + b[1])
\* struct.unpack(">I", b)
Unpack(b) == ByteCount(b[1] * 256 + b[2], b[3] * 256 + b[4])

\* len(data)
LenOf(data) == ByteCount(Len(data) \div (U16Max + 1), Len(data) % (U16Max + 1))

\* send_frame / _write_frame: the bytes put on the stream for data.
send_frame(data) == Pack(LenOf(data)) \o data

\* The streams a reader is run on: one frame or two frames back to back, whole
\* or cut short anywhere, and prefixes that declare far more than follows.
FramePlans == { <<p>> : p \in Payloads } \cup { <<p, q>> : p, q \in Payloads }
Written(ps) == IF Len(ps) = 1 THEN send_frame(ps[1]) ELSE send_frame(ps[1]) \o send_frame(ps[2])
BigPrefixes == { <<0, 0, 1, 0>>, <<1, 0, 0, 0>>, <<255, 255, 255, 255>> }

IdleNet == [inflight |-> <<>>, buf |-> <<>>, fin |-> FALSE, all |-> <<>>, plan |-> <<>>]
IdleReader ==
    [side |-> "none", pc |-> "idle", remaining |-> ByteCount(0, 0), acc |-> <<>>,
     length |-> ByteCount(0, 0), out |-> <<>>, want |-> 0, asked |-> 0,
     exc |-> "none", at |-> "idle"]

StartNet(bytes, ps) ==
    [inflight |-> bytes, buf |-> <<>>, fin |-> FALSE, all |-> bytes, plan |-> ps]
StartReader(side, want) ==
    [side |-> side, pc |-> "prefix", remaining |-> ByteCount(0, 4), acc |-> <<>>,
     length |-> ByteCount(0, 0), out |-> <<>>, want |-> want, asked |-> want,
     exc |-> "none", at |-> "idle"]

CodecInit ==
    /\ SessionInit
    /\ cl = IdleClient
    /\ ExchangeIdle
    /\ \E side \in {"server", "client"} :
        \/ \E ps \in FramePlans : \E keep \in 0..Len(Written(ps)) :
            /\ net = StartNet(SubSeq(Written(ps), 1, keep), ps)
            /\ rd = StartReader(side, Len(ps))
        \/ \E b \in BigPrefixes, tail \in Payloads :
            /\ net = StartNet(b \o tail, <<>>)
            /\ rd = StartReader(side, 1)

\* The network hands the reader's socket the next k bytes.
NetDeliver ==
    /\ net.inflight # <<>>
    /\ \E k \in 1..Min(MaxChunk, Len(net.inflight)) :
        net' = [net EXCEPT !.buf = @ \o SubSeq(net.inflight, 1, k),
                           !.inflight = SubSeq(@, k + 1, Len(@))]
    /\ UNCHANGED <<rd, sessionVars, clientVars, exchangeVars>>

\* The writer has closed: the end of the stream reaches the reader.
NetFin ==
    /\ net.inflight = <<>>
    /\ rd.side # "none"
    /\ ~net.fin
    /\ net' = [net EXCEPT !.fin = TRUE]
    /\ UNCHANGED <<rd, sessionVars, clientVars, exchangeVars>>

\* One frame is returned to the caller, who asks for the next one if it
\* wants more.
FrameDone(r, data) ==
    [r EXCEPT !.out = Append(@, data), !.want = @ - 1, !.acc = <<>>,
              !.remaining = ByteCount(0, 4),
              !.pc = IF r.want = 1 THEN "done" ELSE "prefix"]

\* The 4 prefix bytes are in: unpack, return b"" for length 0, else read on.
PrefixDone(r, b) ==
    LET length == Unpack(b) IN
    IF IsZero(length) THEN FrameDone([r EXCEPT !.length = length], <<>>)
    ELSE [r EXCEPT !.length = length, !.remaining = length, !.acc = <<>>,
                   !.pc = "payload"]

PartDone(r, data) == IF r.pc = "prefix" THEN PrefixDone(r, data) ELSE FrameDone(r, data)

\* Mutant of Failed: the error is caught and the partial bytes are returned
\* as the frame.
Failed_ReturnPartial(r, exc, partial) ==
    [r EXCEPT !.out = Append(@, partial), !.want = @ - 1, !.acc = <<>>,
              !.remaining = ByteCount(0, 4),
              !.pc = IF r.want = 1 THEN "done" ELSE "prefix"]

\* The stream ended inside a frame: readexactly's IncompleteReadError, or
\* recv_exact's RuntimeError, leaves the frame reader.
Failed(r, exc, partial) == [r EXCEPT !.pc = "failed", !.exc = exc, !.at = r.pc]

\* StreamReader.readexactly(n): n bytes once the buffer holds them;
\* IncompleteReadError if the stream ends first; waits otherwise.
readexactly(n, buf, fin) ==
    IF n.hi = 0 /\ n.lo <= Len(buf)
    THEN [st |-> "ok", data |-> SubSeq(buf, 1, n.lo), rest |-> SubSeq(buf, n.lo + 1, Len(buf))]
    ELSE IF fin THEN [st |-> "IncompleteReadError", data |-> buf, rest |-> <<>>]
    ELSE [st |-> "wait", data |-> <<>>, rest |-> buf]

\* Server _read_frame, one readexactly at a time.
ServerRead ==
    /\ rd.side = "server"
    /\ rd.pc \in {"prefix", "payload"}
    /\ LET r == readexactly(rd.remaining, net.buf, net.fin) IN
        /\ r.st # "wait"
        /\ net' = [net EXCEPT !.buf = r.rest]
        /\ rd' = IF r.st = "ok" THEN PartDone(rd, r.data)
                 ELSE Failed(rd, r.st, r.data)
    /\ UNCHANGED <<sessionVars, clientVars, exchangeVars>>

\* Client recv_exact, one sock.recv(remaining) at a time: some of the bytes
\* at hand, at most remaining; b"" at the end of the stream, which raises.
ClientRecv ==
    /\ rd.side = "client"
    /\ rd.pc \in {"prefix", "payload"}
    /\ \/ /\ net.buf # <<>>
          /\ \E k \in 1..Min(MaxChunk, Len(net.buf)) :
              /\ AtMost(k, rd.remaining)
              /\ net' = [net EXCEPT !.buf = SubSeq(@, k + 1, Len(@))]
              /\ LET chunks == rd.acc \o SubSeq(net.buf, 1, k)
                     remaining == Minus(rd.remaining, k)
                 IN rd' = IF IsZero(remaining) THEN PartDone(rd, chunks)
                          ELSE [rd EXCEPT !.acc = chunks, !.remaining = remaining]
       \/ /\ net.buf = <<>>
          /\ net.fin
          /\ net' = net
          /\ rd' = Failed(rd, "RuntimeError", rd.acc)
    /\ UNCHANGED <<sessionVars, clientVars, exchangeVars>>

CodecNext == NetDeliver \/ NetFin \/ ServerRead \/ ClientRecv

SpecCodec == CodecInit /\ [][CodecNext]_vars

Init ==
    /\ SessionInit
    /\ net = IdleNet /\ rd = IdleReader
    /\ cl = IdleClient
    /\ ExchangeIdle

Spec == Init /\ [][Next]_vars

\* Every peer has so far behaved as the concurrent traffic does.
TrafficOnly ==
    \A c \in Conns :
        /\ Len(got[c]) >= 1 => got[c][1] \in TrafficHeaderItems(c) \cup {WReset}
        /\ Len(got[c]) >= 2 => got[c][2] \in TrafficBodyItems \cup {WReset}

\* The reads of a session whose peer is one of the concurrent traffic.
TrafficReadHeader(c) == ReadHeader(c) /\ TrafficOnly'
TrafficReadBody(c) == ReadBody(c) /\ TrafficOnly'

NextTraffic ==
    \E c \in Conns :
        \/ Accept(c)
        \/ TrafficReadHeader(c)
        \/ TrafficReadBody(c)
        \/ SynthesisReturns(c)
        \/ WriteBody(c)
        \/ PeerTakes(c)
        \/ DrainFails(c)
        \/ Close(c)
        \/ PeerReset(c)

\* What the event loop guarantees a session: a read completes once the peer
\* has sent the frame or closed (the peer is taken to do one of the two), a
\* generate call returns or raises, a write that need not wait is made, an
\* error is raised on a lost connection, and the finally block runs. Whether
\* a peer connects, resets, or takes a body the buffers do not hold is up to
\* the peer.
Fairness ==
    \A c \in Conns :
        /\ WF_vars(TrafficReadHeader(c))
        /\ WF_vars(TrafficReadBody(c))
        /\ WF_vars(SynthesisReturns(c))
        /\ WF_vars(WriteBody(c))
        /\ WF_vars(DrainFails(c))
        /\ WF_vars(Close(c))

\* The runs of Spec in which every peer is one of the concurrent traffic,
\* under the fairness above.
SpecFair == Init /\ [][NextTraffic]_vars /\ Fairness

\* ============================================================ the clients
\* tts_request (wy_client.py) and check_server with main (health_check.py),
\* each run once against a peer that may answer anything.
Progs == { "wy_client", "health_check" }

JTrue == [t |-> "true"]
\* A response header object, by the fields the clients look at.
RObj(type, format, ok, sample_rate, message) ==
    [t |-> "obj", type |-> type, format |-> format, ok |-> ok,
     sample_rate |-> sample_rate, message |-> message]
\* A payload of n audio bytes.
PBytes(n) == [k |-> "bytes", len |-> n]
\* The socket operation timed out.
WTimeout == [w |-> "timeout"]

\* The two frames of the request: the header dict (with the defaults of
\* tts_request's parameters, the literal values of check_server) and the text.
RequestHeader == JObj(JStr("TTS"), Absent, JStr("expr-voice-5-m"), JNum(100), JNum(2400000))
RequestTexts(prog) == IF prog = "wy_client" THEN { PEmpty, PText("ok") } ELSE { PText("ok") }

\* What the peer may answer.
RespHeaders ==
    { RObj(JStr("AUDIO"), JStr("wav"), JTrue, JNum(2400000), Absent),
      RObj(JStr("AUDIO"), JStr("wav"), JTrue, JNum(800000), Absent),
      RObj(JStr("AUDIO"), JStr("wav"), JNum(100), JNum(2400000), Absent),
      RObj(JStr("AUDIO"), JStr("wav"), Absent, JNum(2205000), Absent),
      RObj(JStr("AUDIO"), JStr("wav"), JTrue, JStr("24000"), Absent),
      RObj(JStr("AUDIO"), JStr("mp3"), JTrue, JNum(2400000), Absent),
      RObj(JStr("AUDIO"), Absent, JTrue, JNum(2400000), Absent),
      RObj(JStr("ERROR"), Absent, Absent, Absent, JStr("tts_failed: boom")),
      RObj(JStr("ERROR"), JStr("wav"), JTrue, JNum(2400000), JStr("server_exception")),
      RObj(JStr("ERROR"), Absent, Absent, Absent, Absent),
      RObj(JStr("INFO"), Absent, Absent, Absent, Absent),
      RObj(Absent, JStr("wav"), JTrue, JNum(2400000), Absent) }
RespHeaderItems ==
    { WFrame(PJson(h)) : h \in RespHeaders }
    \cup { WFrame(PJson(JList)), WFrame(PEmpty), WFrame(PText("hello")), WFrame(PNotUtf8),
           WEof(0), WEof(2), WReset, WTimeout }
RespBodyItems ==
    { WFrame(PBytes(44)), WFrame(PBytes(45)), WFrame(PEmpty), WEof(0), WEof(5), WReset,
      WTimeout }
\* socket.create_connection: connected, or refused, timed out, name not
\* resolved; sendall: sent, or the connection is gone, or timed out.
ConnectOutcomes == { "ok", "ConnectionRefusedError", "TimeoutError", "gaierror" }
SendOutcomes == { "ok", "BrokenPipeError", "TimeoutError" }

Fail(exc, msg) == [kind |-> "raise", exc |-> exc, msg |-> msg]
Return(hdr, data) == [kind |-> "return", hdr |-> hdr, wav |-> data]
NoResult == [kind |-> "none"]

\* recv_frame: the payload, or RuntimeError from recv_exact when the stream
\* ends first, or the socket's own error.
recv_frame(item) ==
    CASE item.w = "frame" -> [exc |-> "none", data |-> item.p]
      [] item.w = "eof" ->
            [exc |-> "RuntimeError", data |-> <<"Connection closed while reading frame", None>>]
      [] item.w = "reset" -> [exc |-> "ConnectionResetError", data |-> <<"", None>>]
      [] OTHER -> [exc |-> "TimeoutError", data |-> <<"", None>>]

\* Mutant of OnRespHeader: the unexpected-header check comes first.
OnRespHeader_UnexpectedFirst(r) ==
    IF r.exc # "none" THEN Fail(r.exc, r.data)
    ELSE LET j == JsonLoads(r.data) IN
         IF ~j.ok THEN Fail("RuntimeError", <<"Invalid response header JSON: ", None>>)
         ELSE IF j.j.t # "obj" THEN Fail("AttributeError", <<"", None>>)
         ELSE IF Get(j.j, "type", JNull) # JStr("AUDIO") \/ Get(j.j, "format", JNull) # JStr("wav")
         THEN Fail("RuntimeError", <<"Unexpected response header: ", j.j>>)
         ELSE IF Get(j.j, "type", JNull) = JStr("ERROR")
         THEN Fail("RuntimeError", <<"Server error: ", Get(j.j, "message", JNull)>>)
         ELSE Return(j.j, None)

\* tts_request lines 75-85 (check_server 69-79), given the result r of the
\* first recv_frame: the exception raised, or the header with which it goes
\* on to the second recv_frame.
OnRespHeader(r) ==
    IF r.exc # "none" THEN Fail(r.exc, r.data)
    ELSE LET j == JsonLoads(r.data) IN
         IF ~j.ok THEN Fail("RuntimeError", <<"Invalid response header JSON: ", None>>)
         ELSE IF j.j.t # "obj" THEN Fail("AttributeError", <<"", None>>)
         ELSE IF Get(j.j, "type", JNull) = JStr("ERROR")
         THEN Fail("RuntimeError", <<"Server error: ", Get(j.j, "message", JNull)>>)
         ELSE IF Get(j.j, "type", JNull) # JStr("AUDIO") \/ Get(j.j, "format", JNull) # JStr("wav")
         THEN Fail("RuntimeError", <<"Unexpected response header: ", j.j>>)
         ELSE Return(j.j, None)

\* len(wav_bytes)
BodyLen(p) == IF p.k = "bytes" THEN p.len ELSE 0

\* tts_request lines 87-88, check_server lines 81-84, given the result r of
\* the second recv_frame.
OnRespBody(prog, hdr, r) ==
    IF r.exc # "none" THEN Fail(r.exc, r.data)
    ELSE IF prog = "health_check" /\ BodyLen(r.data) = 0
    THEN Fail("RuntimeError", <<"Empty WAV payload", None>>)
    ELSE Return(hdr, r.data)

\* Exceptions that are OSError or a subclass of it.
IsOSError(exc) ==
    exc \in { "ConnectionRefusedError", "TimeoutError", "gaierror", "BrokenPipeError",
              "ConnectionResetError" }
\* health_check main: the sample rates it accepts (in hundredths), and the
\* length a payload must exceed.
GoodRates == { JNum(r * 100) : r \in {16000, 22050, 24000, 44100, 48000} }
WavHeaderLen == 44

\* Mutant of ExitCode: one `except Exception` clause, every failure exits 2.
ExitCode_OneExceptClause(res) ==
    IF res.kind = "return"
    THEN IF /\ Get(res.hdr, "ok", JNull) = JTrue
            /\ Get(res.hdr, "sample_rate", JNull) \in GoodRates
            /\ BodyLen(res.wav) > WavHeaderLen
         THEN 0 ELSE 1
    ELSE 2

\* health_check main, lines 94-108: the exit code for what check_server did.
ExitCode(res) ==
    IF res.kind = "return"
    THEN IF /\ Get(res.hdr, "ok", JNull) = JTrue
            /\ Get(res.hdr, "sample_rate", JNull) \in GoodRates
            /\ BodyLen(res.wav) > WavHeaderLen
         THEN 0 ELSE 1
    ELSE IF IsOSError(res.exc) THEN 2 ELSE 1

\* A program started: nothing written, nothing read, no result, no exit code.
StartClient(prog, data) ==
    [prog |-> prog, text |-> data, pc |-> "Connect", conn |-> "none", sends |-> <<>>,
     wrote |-> <<>>, reads |-> <<>>, hdr |-> NoHeader, res |-> NoResult, exit |-> -1]

ClientInit ==
    /\ SessionInit
    /\ net = IdleNet /\ rd = IdleReader
    /\ ExchangeIdle
    /\ \E prog \in Progs : \E data \in RequestTexts(prog) : cl = StartClient(prog, data)

\* The function has raised or returned: the `with` block closes the socket.
Finish(c, res) == [c EXCEPT !.pc = "Returned", !.res = res]

\* Line 71: socket.create_connection((host, port), timeout=timeout)
Connect ==
    /\ cl.pc = "Connect"
    /\ \E o \in ConnectOutcomes :
        cl' = IF o = "ok" THEN [cl EXCEPT !.pc = "SendHeader", !.conn = o]
              ELSE Finish([cl EXCEPT !.conn = o], Fail(o, <<"", None>>))
    /\ UNCHANGED <<codecVars, sessionVars, exchangeVars>>

\* Mutant of AfterHeaderSent: the response header is awaited before the text
\* is sent.
AfterHeaderSent_ReadFirst == "RecvHeader"

\* Where tts_request goes once send_frame has sent the header (line 73).
AfterHeaderSent == "SendText"

\* Line 72: send_frame(sock, json.dumps(header).encode("utf-8"))
SendHeader ==
    /\ cl.pc = "SendHeader"
    /\ \E o \in SendOutcomes :
        cl' = IF o = "ok"
              THEN [cl EXCEPT !.pc = AfterHeaderSent, !.sends = Append(@, o),
                              !.wrote = Append(@, WFrame(PJson(RequestHeader)))]
              ELSE Finish([cl EXCEPT !.sends = Append(@, o)], Fail(o, <<"", None>>))
    /\ UNCHANGED <<codecVars, sessionVars, exchangeVars>>

\* Line 73: send_frame(sock, text.encode("utf-8"))
SendText ==
    /\ cl.pc = "SendText"
    /\ \E o \in SendOutcomes :
        cl' = IF o = "ok"
              THEN [cl EXCEPT !.pc = "RecvHeader", !.sends = Append(@, o),
                              !.wrote = Append(@, WFrame(cl.text))]
              ELSE Finish([cl EXCEPT !.sends = Append(@, o)], Fail(o, <<"", None>>))
    /\ UNCHANGED <<codecVars, sessionVars, exchangeVars>>

\* Lines 75-85, from the completion of the first recv_frame.
RecvHeader ==
    /\ cl.pc = "RecvHeader"
    /\ \E item \in RespHeaderItems :
        LET d == OnRespHeader(recv_frame(item))
            c == [cl EXCEPT !.reads = Append(@, item)]
        IN cl' = IF d.kind = "raise" THEN Finish(c, d)
                 ELSE [c EXCEPT !.pc = "RecvBody", !.hdr = d.hdr]
    /\ UNCHANGED <<codecVars, sessionVars, exchangeVars>>

\* Lines 87-88, from the completion of the second recv_frame.
RecvBody ==
    /\ cl.pc = "RecvBody"
    /\ \E item \in RespBodyItems :
        cl' = Finish([cl EXCEPT !.reads = Append(@, item)],
                     OnRespBody(cl.prog, cl.hdr, recv_frame(item)))
    /\ UNCHANGED <<codecVars, sessionVars, exchangeVars>>

\* health_check main, lines 94-108, and sys.exit(main()).
Exit ==
    /\ cl.pc = "Returned"
    /\ cl.prog = "health_check"
    /\ cl' = [cl EXCEPT !.pc = "Exited", !.exit = ExitCode(cl.res)]
    /\ UNCHANGED <<codecVars, sessionVars, exchangeVars>>

ClientNext == Connect \/ SendHeader \/ SendText \/ RecvHeader \/ RecvBody \/ Exit

SpecClient == ClientInit /\ [][ClientNext]_vars

\* ============================================================ one exchange:
\* tts_request and the handle_client session serving it, over a connection
\* whose two directions each hold at most BufCap units. A frame of n payload
\* units is n + 1 units on the stream, the first being its length prefix; a
\* write waits while the stream is full, a read while it is empty.
FrameUnits(kind, n) == [i \in 1..(n + 1) |-> [of |-> kind, fin |-> (i = n + 1)]]

\* generate and sf.write: audio of w units, generate raising, sf.write
\* raising, audio too long for a length prefix.
SynthOutcomes ==
    { [r |-> "audio", w |-> w] : w \in 1..MaxUnits }
    \cup { [r |-> "tts_failed", w |-> 0], [r |-> "encode_failed", w |-> 0],
           [r |-> "oversize", w |-> 0] }

ExchangeInit ==
    /\ SessionInit
    /\ net = IdleNet /\ rd = IdleReader
    /\ cl = IdleClient
    /\ \E t \in 0..MaxUnits :
        xc = [pc |-> "SendHeader", text |-> t, out |-> FrameUnits("TTS", 1),
              res |-> "none"]
    /\ xs = [pc |-> "AwaitHeader", out |-> <<>>, wav |-> 0, caught |-> "none"]
    /\ up = IdleStream
    /\ down = IdleStream

\* The client has left tts_request, and with it the `with` block: its socket
\* is closed.
ClientDone(c, res) == [c EXCEPT !.pc = "Done", !.res = res, !.out = <<>>]

\* send_frame, one piece of sendall at a time (lines 72-73): a unit goes onto
\* the stream when it has room; sendall raises when the connection is gone.
XcSend ==
    /\ xc.pc \in {"SendHeader", "SendText"}
    /\ \/ /\ ~up.lost /\ xs.pc # "Closed"
          /\ Len(up.buf) < BufCap
          /\ up' = [up EXCEPT !.buf = Append(@, Head(xc.out))]
          /\ xc' = IF Len(xc.out) > 1 THEN [xc EXCEPT !.out = Tail(@)]
                   ELSE IF xc.pc = "SendHeader" /\ AfterHeaderSent = "SendText"
                   THEN [xc EXCEPT !.pc = "SendText", !.out = FrameUnits("text", xc.text)]
                   ELSE [xc EXCEPT !.pc = "RecvHeader", !.out = <<>>]
       \/ /\ up.lost \/ xs.pc = "Closed"
          /\ up' = [up EXCEPT !.eof = TRUE]
          /\ xc' = ClientDone(xc, "OSError")
    /\ UNCHANGED <<codecVars, sessionVars, clientVars, xs, down>>

\* What tts_request does with a complete frame (lines 75-88).
OnFrame(c, kind) ==
    IF c.pc = "RecvBody" THEN ClientDone(c, "return")
    ELSE IF kind = "ERROR" THEN ClientDone(c, "ServerError")
    ELSE IF kind # "AUDIO" THEN ClientDone(c, "UnexpectedHeader")
    ELSE [c EXCEPT !.pc = "RecvBody"]

\* recv_frame, one sock.recv at a time (lines 75, 87): a unit is taken when
\* there is one; at the end of the stream recv_exact raises RuntimeError; on
\* a lost connection recv raises.
XcRecv ==
    /\ xc.pc \in {"RecvHeader", "RecvBody"}
    /\ \/ /\ ~down.lost
          /\ down.buf # <<>>
          /\ down' = [down EXCEPT !.buf = Tail(@)]
          /\ xc' = IF Head(down.buf).fin THEN OnFrame(xc, Head(down.buf).of) ELSE xc
          /\ up' = IF xc'.pc = "Done" THEN [up EXCEPT !.eof = TRUE] ELSE up
       \/ /\ ~down.lost
          /\ down.buf = <<>>
          /\ down.eof
          /\ down' = down
          /\ xc' = ClientDone(xc, "RuntimeError")
          /\ up' = [up EXCEPT !.eof = TRUE]
       \/ /\ down.lost
          /\ down' = down
          /\ xc' = ClientDone(xc, "OSError")
          /\ up' = [up EXCEPT !.eof = TRUE]
    /\ UNCHANGED <<codecVars, sessionVars, clientVars, xs>>

\* The client waits: to send with the stream full, or to receive with the
\* stream empty and not ended.
ClientWaitsToSend ==
    /\ xc.pc \in {"SendHeader", "SendText"}
    /\ ~up.lost /\ xs.pc # "Closed"
    /\ Len(up.buf) >= BufCap
ClientWaitsToRecv ==
    /\ xc.pc \in {"RecvHeader", "RecvBody"}
    /\ ~down.lost /\ ~down.eof
    /\ down.buf = <<>>

\* The socket's timeout (line 71) ends a wait with TimeoutError.
XcTimeout ==
    /\ ClientWaitsToSend \/ ClientWaitsToRecv
    /\ xc' = ClientDone(xc, "OSError")
    /\ up' = [up EXCEPT !.eof = TRUE]
    /\ UNCHANGED <<codecVars, sessionVars, clientVars, xs, down>>

\* The session has left the try block: exc is the exception that did it.
\* The catch-all handler's _send_error is written like any frame when the
\* connection still takes it, and fails at once when it does not.
ToHandler(srv, exc, canWrite) ==
    IF exc \in {"none", "IncompleteReadError"} \/ ~canWrite
    THEN [srv EXCEPT !.pc = "Finally", !.out = <<>>, !.caught = exc]
    ELSE [srv EXCEPT !.pc = "WriteError", !.out = FrameUnits("ERROR", 1), !.caught = exc]

\* _read_frame, one piece of readexactly at a time (lines 76, 119).
XsRead ==
    /\ xs.pc \in {"AwaitHeader", "AwaitBody"}
    /\ \/ /\ ~up.lost
          /\ up.buf # <<>>
          /\ up' = [up EXCEPT !.buf = Tail(@)]
          /\ xs' = IF ~Head(up.buf).fin THEN xs
                   ELSE IF xs.pc = "AwaitHeader" THEN [xs EXCEPT !.pc = "AwaitBody"]
                   ELSE [xs EXCEPT !.pc = "Synthesizing"]
       \/ /\ ~up.lost
          /\ up.buf = <<>>
          /\ up.eof
          /\ up' = up
          /\ xs' = ToHandler(xs, "IncompleteReadError", FALSE)
       \/ /\ up.lost
          /\ up' = up
          /\ xs' = ToHandler(xs, "ConnectionResetError", FALSE)
    /\ UNCHANGED <<codecVars, sessionVars, clientVars, xc, down>>

\* Lines 140-159: generate returns or raises, sf.write encodes or raises.
XsSynth ==
    /\ xs.pc = "Synthesizing"
    /\ \E g \in SynthOutcomes :
        xs' = CASE g.r = "tts_failed" ->
                    [xs EXCEPT !.pc = "WriteError", !.out = FrameUnits("ERROR", 1)]
                [] g.r = "encode_failed" -> ToHandler(xs, "LibsndfileError", TRUE)
                [] g.r = "oversize" ->
                    [xs EXCEPT !.pc = "WriteHeader", !.out = FrameUnits("AUDIO", 1),
                               !.wav = -1]
                [] OTHER ->
                    [xs EXCEPT !.pc = "WriteHeader", !.out = FrameUnits("AUDIO", 1),
                               !.wav = g.w]
    /\ UNCHANGED <<codecVars, sessionVars, clientVars, xc, up, down>>

\* The connection no longer takes what the server writes.
DownGone == down.lost \/ xc.pc = "Done"

\* _write_frame, one piece at a time (lines 159-160, 196): a unit goes onto
\* the stream when it has room; the write raises when the connection is
\* gone, and struct.pack raises for the oversized body.
XsWrite ==
    /\ xs.pc \in {"WriteHeader", "WriteBody", "WriteError"}
    /\ \/ /\ ~DownGone
          /\ Len(down.buf) < BufCap
          /\ down' = [down EXCEPT !.buf = Append(@, Head(xs.out))]
          /\ xs' = IF Len(xs.out) > 1 THEN [xs EXCEPT !.out = Tail(@)]
                   ELSE IF xs.pc # "WriteHeader" THEN [xs EXCEPT !.pc = "Finally", !.out = <<>>]
                   ELSE IF xs.wav < 0 THEN ToHandler(xs, "struct.error", TRUE)
                   ELSE [xs EXCEPT !.pc = "WriteBody", !.out = FrameUnits("WAV", xs.wav)]
       \/ /\ DownGone
          /\ down' = down
          /\ xs' = ToHandler(xs, "ConnectionResetError", FALSE)
    /\ UNCHANGED <<codecVars, sessionVars, clientVars, xc, up>>

\* Lines 172-178: writer.close(), wait_closed().
XsClose ==
    /\ xs.pc = "Finally"
    /\ xs' = [xs EXCEPT !.pc = "Closed"]
    /\ down' = [down EXCEPT !.eof = TRUE]
    /\ UNCHANGED <<codecVars, sessionVars, clientVars, xc, up>>

\* The network loses the connection.
Drop ==
    /\ ~up.lost
    /\ xc.pc # "Done" /\ xs.pc \notin {"Finally", "Closed"}
    /\ up' = [up EXCEPT !.lost = TRUE]
    /\ down' = [down EXCEPT !.lost = TRUE]
    /\ UNCHANGED <<codecVars, sessionVars, clientVars, xc, xs>>

ExchangeNext == XcSend \/ XcRecv \/ XcTimeout \/ XsRead \/ XsSynth \/ XsWrite \/ XsClose \/ Drop

\* Each side takes the step it is able to take; timeouts and the loss of the
\* connection may or may not happen.
ExchangeFairness ==
    /\ WF_vars(XcSend) /\ WF_vars(XcRecv)
    /\ WF_vars(XsRead) /\ WF_vars(XsSynth) /\ WF_vars(XsWrite) /\ WF_vars(XsClose)

SpecExchange == ExchangeInit /\ [][ExchangeNext]_vars /\ ExchangeFairness

\* ================================================================ claims
IsPrefix(q, r) == Len(q) <= Len(r) /\ q = SubSeq(r, 1, Len(q))
Finished(c) == pc[c] \in {"Finally", "Closed"}

\* What the peer of connection c sent, as the task's reads met it.
IsJsonHeader(c) == Len(got[c]) >= 1 /\ got[c][1].w = "frame" /\ got[c][1].p.k = "json"
IsObjHeader(c) == IsJsonHeader(c) /\ got[c][1].p.j.t = "obj"
TypeIs(c, x) == IsObjHeader(c) /\ got[c][1].p.j.type = JStr(x)

CompleteResponse(q) ==
    \/ Len(q) = 2 /\ q[1].type = "AUDIO" /\ q[2].type = "WAV"
    \/ Len(q) = 1 /\ q[1].type \in {"INFO", "ERROR"}
TruncatedResponse(q) == q = <<>> \/ (Len(q) = 1 /\ q[1].type = "AUDIO")

\* C1: when a session has finished, the frames its peer received are
\* [AUDIO header, audio body], [one INFO frame] or [one ERROR frame]; a
\* truncated prefix of one of these only if the connection broke.
C1_ResponseShape ==
    \A c \in Conns :
        Finished(c) =>
            \/ CompleteResponse(sent[c])
            \/ ~writable[c] /\ TruncatedResponse(sent[c])

\* The response is written: its last frame is the audio body, an INFO frame
\* or an ERROR frame.
ResponseWritten(c) ==
    sent[c] # <<>> /\ sent[c][Len(sent[c])].type \in {"WAV", "INFO", "ERROR"}

\* C2: one exchange per connection: a session whose response is written is at
\* its finally block or closed, and from then on it reads no frame and writes
\* no frame: its only step is closing the connection.
C2_OneExchange ==
    [][\A c \in Conns :
        /\ ResponseWritten(c)' => pc'[c] \in {"Finally", "Closed"}
        /\ ResponseWritten(c) =>
            /\ sent'[c] = sent[c]
            /\ got'[c] = got[c]
            /\ calls'[c] = calls[c]
            /\ pc'[c] \in {pc[c], "Closed"}]_vars

C2_Witness ==
    \E c \in Conns :
        /\ pc[c] = "Closed"
        /\ Len(sent[c]) = 2
        /\ sent[c][2].type = "WAV"
        /\ Len(got[c]) = 3

\* C3: a session whose awaited frame is missing answers with one ERROR frame
\* naming it: "missing_header" when the peer closes before any header byte or
\* sends a zero-length header frame, "missing_text_body" when the peer closes
\* after a TTS header without sending any byte of the text frame.
C3_MissingFrameNamed ==
    \A c \in Conns :
        (Finished(c) /\ writable[c]) =>
            /\ got[c] \in {<<WEof(0)>>, <<WFrame(PEmpty)>>} =>
                sent[c] = <<ErrorFrame(Msg("missing_header"))>>
            /\ (TypeIs(c, "TTS") /\ Len(got[c]) = 2 /\ got[c][2] = WEof(0)) =>
                sent[c] = <<ErrorFrame(Msg("missing_text_body"))>>

\* C4: a frame cut short (the stream ends inside its length prefix or inside
\* its payload) is answered with one ERROR frame whenever the connection is
\* still writable.
C4_IncompleteFramingReported ==
    \A c \in Conns :
        (/\ Finished(c)
         /\ writable[c]
         /\ got[c] # <<>>
         /\ got[c][Len(got[c])].w = "eof"
         /\ got[c][Len(got[c])].n > 0) =>
            Len(sent[c]) = 1 /\ sent[c][1].type = "ERROR"

\* The complete frames at the front of a byte stream, by the framing rule:
\* 4 bytes of big-endian length n, then n bytes.
RECURSIVE WholeFrames(_)
WholeFrames(b) ==
    IF Len(b) < 4 THEN <<>>
    ELSE LET hi == b[1] * 256 + b[2]
             lo == b[3] * 256 + b[4]
         IN IF hi > 0 \/ lo > Len(b) - 4 THEN <<>>
            ELSE <<SubSeq(b, 5, 4 + lo)>> \o WholeFrames(SubSeq(b, 5 + lo, Len(b)))

\* The stream is the writer's frames, whole.
Uncut == net.plan # <<>> /\ net.all = Written(net.plan)
\* Bytes the reader has taken from its socket.
Consumed == Len(net.all) - Len(net.inflight) - Len(net.buf)

\* C5: frame round trip. A written frame is the 4-byte big-endian length of
\* the payload followed by the payload; a reader run on the written frames,
\* delivered and read in pieces of any size, returns exactly the payloads
\* written, in order, and has consumed exactly 4 + len(p) bytes per frame.
C5_RoundTrip ==
    /\ \A p \in Payloads :
        LET f == send_frame(p) IN
        /\ Len(f) = 4 + Len(p)
        /\ f[1] = 0 /\ f[2] = 0 /\ f[3] * 256 + f[4] = Len(p)
        /\ SubSeq(f, 5, Len(f)) = p
    /\ Uncut =>
        /\ rd.pc # "failed"
        /\ IsPrefix(rd.out, net.plan)
        /\ rd.pc = "done" => rd.out = net.plan /\ Consumed = Len(net.all)
        /\ (rd.pc = "prefix" /\ rd.acc = <<>> /\ Len(rd.out) = 1) =>
            Consumed = 4 + Len(net.plan[1])

C5_Witness ==
    /\ Uncut
    /\ rd.side = "client"
    /\ rd.pc = "done"
    /\ Len(rd.out) = 2
    /\ Len(rd.out[1]) = MaxPayloadLen
    /\ rd.out[2] = <<>>

\* The stream ends before the frames the reader asks for are complete.
CutShort == Len(WholeFrames(net.all)) < rd.asked

\* C6: a reader run on a stream that ends inside a frame fails with its
\* connection-closed error (IncompleteReadError for _read_frame, RuntimeError
\* for recv_frame); what it returns before that are the whole frames only,
\* never a payload shorter or longer than its prefix declares.
C6_NoShortPayload ==
    /\ IsPrefix(rd.out, WholeFrames(net.all))
    /\ rd.pc = "done" => ~CutShort
    /\ rd.pc = "failed" =>
        /\ CutShort
        /\ rd.out = WholeFrames(net.all)
        /\ rd.exc = IF rd.side = "server" THEN "IncompleteReadError" ELSE "RuntimeError"
    /\ (CutShort /\ net.fin /\ rd.pc # "failed") => ENABLED (ServerRead \/ ClientRecv)

C6_Witness ==
    /\ rd.pc = "failed"
    /\ rd.at = "payload"
    /\ rd.side = "server"
    /\ ~IsZero(rd.length)
    /\ Len(net.all) > 4
    /\ Len(rd.out) = 1

\* The request of connection c was a TTS header and a text frame that decoded,
\* generate and sf.write succeeded, and the audio fits a frame.
SynthFailed(c) == Len(got[c]) = 3 /\ ~got[c][3].ok
TTSSucceeded(c) ==
    /\ TypeIs(c, "TTS")
    /\ Len(got[c]) = 3
    /\ got[c][2].w = "frame"
    /\ got[c][2].p.k # "notutf8"
    /\ got[c][3].ok
    /\ got[c][3].enc
    /\ FitsU32(got[c][3].len)

\* The header field if given, else the configured default.
ExpectedVoice(h) == IF h.voice = Absent THEN DEFAULT_VOICE ELSE h.voice
ExpectedRate(h) ==
    CASE h.sample_rate = Absent -> DEFAULT_SAMPLE_RATE
      [] h.sample_rate.t = "num" -> Trunc(h.sample_rate.n)
      [] OTHER -> safe_int(h.sample_rate, DEFAULT_SAMPLE_RATE)

\* C7: the audio body is only ever the second frame, after an AUDIO header,
\* and no third frame follows; a TTS request that succeeds on a connection
\* that stays writable gets exactly the AUDIO header (format wav, ok true,
\* sample_rate and voice as resolved from that request), then the body frame.
C7_AudioThenBody ==
    \A c \in Conns :
        /\ Len(sent[c]) <= 2
        /\ \A i \in 1..Len(sent[c]) :
            sent[c][i].type = "WAV" => i = 2 /\ sent[c][1].type = "AUDIO"
        /\ (Finished(c) /\ TTSSucceeded(c) /\ writable[c]) =>
            sent[c] = << [type |-> "AUDIO", format |-> "wav",
                          sample_rate |-> ExpectedRate(got[c][1].p.j),
                          voice |-> ExpectedVoice(got[c][1].p.j), ok |-> TRUE],
                         WavFrame(got[c][3].len) >>

C7_Witness ==
    \E c \in Conns :
        /\ pc[c] = "Closed"
        /\ TTSSucceeded(c)
        /\ writable[c]
        /\ got[c][1].p.j.voice = JStr("expr-voice-5-m")
        /\ Len(sent[c]) = 2
        /\ sent[c][1].sample_rate = 1600000

\* C8: if generate raises, the peer gets one ERROR frame whose message starts
\* with "tts_failed: " (nothing if the connection is lost), never an AUDIO
\* header or a body; the session goes on to close, and the dispatcher goes on
\* accepting: a connection not yet accepted can be accepted whenever the loop
\* is not inside another session's generate call.
C8_SynthesisFailureReported ==
    \A c \in Conns :
        (Finished(c) /\ SynthFailed(c)) =>
            /\ sent[c] = IF writable[c]
                         THEN <<ErrorFrame(<<"tts_failed: ", "boom">>)>>
                         ELSE <<>>
            /\ (pc[c] = "Finally" /\ ~LoopBusy) => ENABLED Close(c)
            /\ \A d \in Conns : (pc[d] = "Idle" /\ ~LoopBusy) => ENABLED Accept(d)

C8_Witness ==
    \E c, d \in Conns :
        /\ pc[c] = "Closed"
        /\ SynthFailed(c)
        /\ sent[c] # <<>>
        /\ sent[c][1].message[1] = "tts_failed: "
        /\ pc[d] = "Idle"
        /\ ENABLED Accept(d)

\* The INFO query of a header, case-insensitively.
Query(h) == IF h.what = Absent THEN "" ELSE Lower(Str(h.what))

\* C9: an INFO request for the voices gets exactly one INFO frame with the
\* collaborator's voices; any other INFO request except version/ver gets
\* exactly one ERROR "unsupported_info_query"; no INFO request has a body
\* frame read or generate called. (Nothing is delivered on a lost connection.)
C9_InfoOneFrame ==
    \A c \in Conns :
        (Finished(c) /\ TypeIs(c, "INFO")) =>
            /\ Len(got[c]) = 1
            /\ calls[c] = 0
            /\ Len(sent[c]) <= 1
            /\ writable[c] =>
                LET q == Query(got[c][1].p.j) IN
                IF q \in {"voices", "voice", "list_voices"}
                THEN sent[c] = <<[type |-> "INFO", voices |-> AvailableVoices]>>
                ELSE IF q \in {"version", "ver"}
                THEN Len(sent[c]) = 1 /\ sent[c][1].type = "INFO"
                ELSE sent[c] = <<ErrorFrame(Msg("unsupported_info_query"))>>

C9_Witness ==
    \E c \in Conns :
        /\ pc[c] = "Closed"
        /\ TypeIs(c, "INFO")
        /\ got[c][1].p.j.what = JStr("List_Voices")
        /\ Len(sent[c]) = 1
        /\ sent[c][1].type = "INFO"

\* C10: a header frame that parses as JSON and is not a TTS or INFO request
\* (another type, no type, or a JSON value that is no object) gets exactly one
\* ERROR "unsupported_type", and no body frame is read.
C10_UnsupportedType ==
    \A c \in Conns :
        (/\ Finished(c)
         /\ writable[c]
         /\ IsJsonHeader(c)
         /\ ~TypeIs(c, "TTS")
         /\ ~TypeIs(c, "INFO")) =>
            /\ sent[c] = <<ErrorFrame(Msg("unsupported_type"))>>
            /\ Len(got[c]) = 1

\* Header values that neither int() nor float() converts.
NotANumber == { JStr("abc"), JNull, JList }
\* The text frame of connection c's TTS request was read and decoded.
TextRead(c) ==
    /\ TypeIs(c, "TTS")
    /\ Len(got[c]) >= 2
    /\ got[c][2].w = "frame"
    /\ got[c][2].p.k # "notutf8"

\* C11: a TTS request whose speed or sample_rate is present but not
\* convertible to a number is synthesized with the configured default in its
\* place: generate is called (no ERROR is written for that cause), the value
\* passed on is DEFAULT_SPEED / DEFAULT_SAMPLE_RATE, and when synthesis and
\* encoding succeed the response is the AUDIO header, carrying the resolved
\* sample_rate, and the body.
C11_DefaultsOnMalformed ==
    \A c \in Conns :
        LET h == got[c][1].p.j IN
        (TextRead(c) /\ (h.speed \in NotANumber \/ h.sample_rate \in NotANumber)) =>
            /\ calls[c] = 1
            /\ h.speed \in NotANumber => args[c].speed = DEFAULT_SPEED
            /\ h.sample_rate \in NotANumber => args[c].sample_rate = DEFAULT_SAMPLE_RATE
            /\ Len(got[c]) = 2 => tried[c] = <<>> /\ caught[c] = "none"
            /\ (Finished(c) /\ TTSSucceeded(c) /\ writable[c]) =>
                /\ Len(sent[c]) = 2
                /\ sent[c][1].type = "AUDIO"
                /\ sent[c][1].sample_rate = args[c].sample_rate
                /\ sent[c][2] = WavFrame(got[c][3].len)
                /\ tried[c] = sent[c]

C11_Witness ==
    \E c \in Conns :
        /\ pc[c] = "Closed"
        /\ TTSSucceeded(c)
        /\ got[c][1].p.j.speed = JNull
        /\ got[c][1].p.j.sample_rate = JList
        /\ args[c].speed = DEFAULT_SPEED
        /\ Len(sent[c]) = 2
        /\ sent[c][1].sample_rate = DEFAULT_SAMPLE_RATE

\* All that the program keeps for connection c.
Session(c) ==
    << pc[c], writable[c], sent[c], got[c], header[c], text[c], wav[c], calls[c],
       args[c], tried[c], caught[c] >>
\* The session of c ended in an error of its own: a malformed header, an ERROR
\* response or an exception.
Faulty(c) ==
    /\ Finished(c)
    /\ \/ caught[c] # "none"
       \/ \E i \in 1..Len(tried[c]) : tried[c][i].type = "ERROR"

\* C12: sessions are isolated under every interleaving. The frames a peer
\* receives are frames its own session wrote, in the order it wrote them, and
\* an AUDIO header names the voice of that connection's own request; sessions
\* that met the same input on writable connections produced the same frames;
\* a step of one session changes nothing of any other session; and after a
\* session has failed, a connection not yet accepted can still be accepted
\* whenever the loop is not inside a generate call.
C12_Isolation ==
    /\ [](\A c \in Conns :
            /\ \E keep \in SUBSET (1..Len(tried[c])) :
                /\ Cardinality(keep) = Len(sent[c])
                /\ \A i \in 1..Len(sent[c]) :
                    \E j \in keep :
                        /\ Cardinality({ k \in keep : k <= j }) = i
                        /\ tried[c][j] = sent[c][i]
            /\ \A i \in 1..Len(sent[c]) :
                sent[c][i].type = "AUDIO" =>
                    /\ TypeIs(c, "TTS")
                    /\ sent[c][i].voice = ExpectedVoice(got[c][1].p.j)
            /\ \A d \in Conns :
                (/\ got[c] = got[d]
                 /\ Finished(c) /\ Finished(d)
                 /\ writable[c] /\ writable[d]
                 /\ ~TypeIs(c, "INFO")) => sent[c] = sent[d]
            /\ Faulty(c) =>
                \A d \in Conns : (pc[d] = "Idle" /\ ~LoopBusy) => ENABLED Accept(d))
    /\ [][\A c, d \in Conns :
            (c # d /\ Session(c)' # Session(c)) => Session(d)' = Session(d)]_vars

\* One session has ended in an unexpected exception and is not yet closed
\* while another, accepted and served meanwhile, has its AUDIO header out
\* with its own voice.
C12_Witness ==
    \E c, d \in Conns :
        /\ c # d
        /\ pc[c] = "Finally"
        /\ caught[c] = "AttributeError"
        /\ pc[d] = "WriteBody"
        /\ Len(sent[d]) = 1
        /\ sent[d][1].type = "AUDIO"
        /\ sent[d][1].voice = got[d][1].p.j.voice
        /\ sent[d][1].voice # DEFAULT_VOICE

\* C13: while one session is inside its generate call, the dispatcher can
\* accept a new connection and every other session can take its next framing
\* step (complete its header read, complete its text read).
C13_ServesWhileSynthesizing ==
    \A c, d \in Conns :
        (pc[c] = "Synthesizing" /\ d # c) =>
            /\ pc[d] = "Idle" => ENABLED Accept(d)
            /\ pc[d] = "AwaitHeader" => ENABLED ReadHeader(d)
            /\ pc[d] = "AwaitBody" => ENABLED ReadBody(d)

\* Sessions inside self.tts.generate.
Synthesizing == { c \in Conns : pc[c] = "Synthesizing" }

\* C14: generate calls never overlap: at most one session is inside
\* self.tts.generate in any state, however many sessions are open, and each
\* session inside it has made exactly one call.
C14_SynthesisSerialized ==
    /\ Cardinality(Synthesizing) <= 1
    /\ \A c \in Synthesizing : calls[c] = 1 /\ Len(got[c]) = 2

\* One session is inside generate while another has its TTS header read and
\* is about to read its text and call generate too.
C14_Witness ==
    \E c, d \in Conns :
        /\ c # d
        /\ pc[c] = "Synthesizing"
        /\ pc[d] = "AwaitBody"
        /\ TypeIs(d, "TTS")

\* The exception that ended the session of c went to the catch-all handler.
Unexpected(c) == caught[c] \notin {"none", "IncompleteReadError"}
ServerException == ErrorFrame(Msg("server_exception"))
\* How many times frame f occurs in the sequence q.
Count(q, f) == Cardinality({ i \in 1..Len(q) : q[i] = f })

ClosedLast ==
    /\ [](\A c \in Conns : (pc[c] = "Finally" /\ ~LoopBusy) => ENABLED Close(c))
    /\ [][\A c \in Conns :
            /\ pc[c] = "Closed" => Session(c)' = Session(c)
            /\ (pc'[c] = "Closed" /\ pc[c] # "Closed") =>
                /\ pc[c] = "Finally"
                /\ sent'[c] = sent[c]
                /\ tried'[c] = tried[c]]_vars

\* C16 as stated: every accepted session closes its connection, given only
\* that its peer sends each awaited frame or closes; closing comes last.
C16_EverySessionCloses ==
    /\ ClosedLast
    /\ \A c \in Conns : (pc[c] = "AwaitHeader") ~> (pc[c] = "Closed")

\* C16, amended: every accepted session closes its connection, on every path,
\* given that its peer sends each awaited frame or closes and also takes the
\* audio body written to it or closes; closing comes last.
C16_ClosesIfPeerTakes ==
    /\ ClosedLast
    /\ (\A c \in Conns : WF_vars(PeerTakes(c))) =>
            \A c \in Conns : (pc[c] = "AwaitHeader") ~> (pc[c] = "Closed")

\* A session that waited in drain() for its peer, lost the connection there,
\* and closed.
C16_Witness ==
    \E c \in Conns :
        /\ pc[c] = "Closed"
        /\ ~writable[c]
        /\ caught[c] = "ConnectionResetError"
        /\ Len(tried[c]) = 3
        /\ tried[c][2] = WavFrame(ByteCount(1, 0))

\* C19: a session calls generate at most once, and only with a header frame
\* that parsed as a JSON object of type "TTS" and a text frame that decoded as
\* UTF-8 both read in full, before it has written any frame or raised any
\* exception; never for an INFO request or after an end of stream inside or
\* in place of a frame. The text frame is read only for a TTS request. A
\* zero-length text frame is the empty text, and generate is called with it.
C19_SynthesisOnlyAfterRequest ==
    \A c \in Conns :
        /\ calls[c] <= 1
        /\ calls[c] = 1 => TextRead(c)
        /\ (calls[c] = 1 /\ Len(got[c]) = 2) =>
            pc[c] = "Synthesizing" /\ tried[c] = <<>> /\ caught[c] = "none"
        /\ Len(got[c]) = 3 => calls[c] = 1 /\ got[c][3].w = "generate"
        /\ Len(got[c]) <= 3
        /\ Len(got[c]) >= 2 => TypeIs(c, "TTS")
        /\ TypeIs(c, "INFO") => calls[c] = 0
        /\ (\E i \in 1..Len(got[c]) : got[c][i].w \in {"eof", "reset"}) => calls[c] = 0
        /\ (Len(got[c]) >= 2 /\ got[c][2] = WFrame(PEmpty)) =>
            calls[c] = 1 /\ text[c] = ""

\* A TTS request with a zero-length text frame, synthesized and answered.
C19_Witness ==
    \E c \in Conns :
        /\ pc[c] = "Closed"
        /\ TypeIs(c, "TTS")
        /\ got[c][2] = WFrame(PEmpty)
        /\ calls[c] = 1
        /\ Len(sent[c]) = 2
        /\ sent[c][2].type = "WAV"

\* The first frame the client read, when it is a JSON object.
GotRespObj ==
    /\ cl.reads # <<>>
    /\ cl.reads[1].w = "frame"
    /\ cl.reads[1].p.k = "json"
    /\ cl.reads[1].p.j.t = "obj"
RespObj == cl.reads[1].p.j
\* dict.get(key): the value, or None.
Field(v) == IF v = Absent THEN JNull ELSE v

\* C17: tts_request writes its header frame, then its text frame, and reads
\* nothing before both are written; it reads at most two frames. When the
\* first is a JSON object: type "ERROR" makes it raise the server error with
\* the message, whatever the other fields are, after that one read; otherwise
\* a type other than "AUDIO" or a format other than "wav" makes it raise the
\* unexpected-header error after that one read; otherwise it reads one more
\* frame and returns (header, payload). Any other first frame makes it raise
\* after that one read.
C17_DriverOrder ==
    (cl.pc # "idle" /\ cl.prog = "wy_client") =>
        /\ IsPrefix(cl.wrote, <<WFrame(PJson(RequestHeader)), WFrame(cl.text)>>)
        /\ cl.reads # <<>> => Len(cl.wrote) = 2
        /\ Len(cl.reads) <= 2
        /\ cl.pc = "RecvBody" => Len(cl.reads) = 1
        /\ (cl.pc = "Returned" /\ GotRespObj) =>
            IF RespObj.type = JStr("ERROR")
            THEN /\ cl.res = [kind |-> "raise", exc |-> "RuntimeError",
                              msg |-> <<"Server error: ", Field(RespObj.message)>>]
                 /\ Len(cl.reads) = 1
            ELSE IF RespObj.type # JStr("AUDIO") \/ RespObj.format # JStr("wav")
            THEN /\ cl.res = [kind |-> "raise", exc |-> "RuntimeError",
                              msg |-> <<"Unexpected response header: ", RespObj>>]
                 /\ Len(cl.reads) = 1
            ELSE /\ Len(cl.reads) = 2
                 /\ IF cl.reads[2].w = "frame"
                    THEN cl.res = [kind |-> "return", hdr |-> RespObj, wav |-> cl.reads[2].p]
                    ELSE cl.res.kind = "raise"
        /\ (cl.pc = "Returned" /\ cl.reads # <<>> /\ ~GotRespObj) =>
            cl.res.kind = "raise" /\ Len(cl.reads) = 1

\* An ERROR header that also says format "wav": the server error is raised.
C17_Witness ==
    /\ cl.pc = "Returned"
    /\ cl.prog = "wy_client"
    /\ GotRespObj
    /\ RespObj.type = JStr("ERROR")
    /\ RespObj.format = JStr("wav")
    /\ cl.res.kind = "raise"
    /\ cl.res.msg[1] = "Server error: "

\* What the health check met: the connection was made and every send and
\* receive went through at transport level, or not.
TransportFailed ==
    \/ cl.conn # "ok"
    \/ \E i \in 1..Len(cl.sends) : cl.sends[i] # "ok"
    \/ \E i \in 1..Len(cl.reads) : cl.reads[i].w \in {"reset", "timeout"}
\* An AUDIO/wav header with ok true and a known sample rate, then a payload
\* of more than 44 bytes.
HealthyResponse ==
    /\ ~TransportFailed
    /\ GotRespObj
    /\ RespObj.type = JStr("AUDIO")
    /\ RespObj.format = JStr("wav")
    /\ RespObj.ok = JTrue
    /\ RespObj.sample_rate.t = "num"
    /\ RespObj.sample_rate.n \in { 1600000, 2205000, 2400000, 4410000, 4800000 }
    /\ Len(cl.reads) = 2
    /\ cl.reads[2].w = "frame"
    /\ cl.reads[2].p.k = "bytes"
    /\ cl.reads[2].p.len > 44

\* C18: every run of the health check ends in exactly one exit code: 0 if and
\* only if the response is healthy; 2 if and only if the connection could not
\* be made or failed or timed out at transport level; 1 in every other case,
\* in which the server was reached and answered wrongly (an ERROR header, a
\* header that is not JSON, an unexpected header, an empty or too short
\* payload, a stream that ends inside a frame).
C18_ExitClasses ==
    cl.pc \in {"Returned", "Exited"} /\ cl.prog = "health_check" =>
        /\ cl.pc = "Returned" => ENABLED Exit
        /\ cl.pc = "Exited" =>
            /\ cl.exit \in {0, 1, 2}
            /\ cl.exit = 0 <=> HealthyResponse
            /\ cl.exit = 2 <=> TransportFailed
            /\ cl.exit = 1 <=> (~HealthyResponse /\ ~TransportFailed)
            /\ (cl.reads # <<>> /\ cl.reads[Len(cl.reads)].w = "eof") => cl.exit = 1

C18_Witness ==
    /\ cl.pc = "Exited"
    /\ cl.prog = "health_check"
    /\ cl.exit = 0
    /\ cl.reads[2] = WFrame(PBytes(45))

\* The server waits: to read with the stream empty and not ended, or to write
\* with the stream full.
ServerWaitsToRead ==
    /\ xs.pc \in {"AwaitHeader", "AwaitBody"}
    /\ ~up.lost /\ ~up.eof
    /\ up.buf = <<>>
ServerWaitsToWrite ==
    /\ xs.pc \in {"WriteHeader", "WriteBody", "WriteError"}
    /\ ~DownGone
    /\ Len(down.buf) >= BufCap

\* C20: in one exchange the two sides never both wait to read and never both
\* wait to write (nor one to read and the other to write): while either is
\* unfinished, one of them can take a step; and with each side taking the
\* steps it can, tts_request returns or raises and the session closes its
\* connection, whatever the synthesis outcome, also when the connection is
\* lost or the client times out.
C20_NoDeadlock ==
    /\ [](/\ ~(ClientWaitsToRecv /\ ServerWaitsToRead)
          /\ ~(ClientWaitsToSend /\ ServerWaitsToWrite)
          /\ (xc.pc # "Done" \/ xs.pc # "Closed") =>
                ENABLED (XcSend \/ XcRecv \/ XsRead \/ XsSynth \/ XsWrite \/ XsClose))
    /\ <>(xc.pc = "Done")
    /\ <>(xs.pc = "Closed")

\* The client has waited to send its text with the stream full, and the
\* exchange has ended with the audio returned and the session closed.
C20_Witness ==
    /\ xc.pc = "Done"
    /\ xc.res = "return"
    /\ xc.text = MaxUnits
    /\ xs.pc = "Closed"
    /\ xs.wav = MaxUnits
    /\ xs.caught = "none"

====
